---------------------------- MODULE Spec2Model ----------------------------
(***************************************************************************)
(* Model of boards/adafruit-feather-rp2040/examples/                       *)
(* adafruit_feather_spi_sd_card.rs: the staged SD-card bring-up of main()  *)
(* and the pulse encoder blink_signals / blink_signals_loop.               *)
(*                                                                         *)
(* The program is one thread of control.  pc is main()'s position, bpc the *)
(* position inside blink_signals while a render is in progress.  Every     *)
(* call into embedded_sdmmc is an action whose result (Ok / Err) is drawn  *)
(* from the environment; a panic (`.unwrap()` on Err, with panic_halt)     *)
(* leaves the program in "halted" for the rest of the power cycle.         *)
(* A power cycle (Reset) is the environment's only other move: it keeps    *)
(* the card's content and rebuilds every program variable.                 *)
(***************************************************************************)
EXTENDS Integers, Sequences, FiniteSets, TLC

VARIABLES
    pc,               \* position in main()
    bpc,              \* position in blink_signals: "none" | "for"
    sig,              \* the `sig` argument of the current/last render
    i,                \* index of the next symbol of sig (for bit in sig)
    led,              \* level of led_pin: 0 low, 1 high
    trace,            \* <<level, ms>> intervals emitted since the render began
    successful_read,  \* main()'s `successful_read`
    card,             \* the record 'log.txt' on the card
    offset,           \* file.offset() of the record opened read-only
    buffer,           \* `buffer` of the current read iteration
    len,              \* `len` of the current read iteration
    log,              \* this power cycle's external calls and acknowledgments
    chunks,           \* this power cycle's read chunks: [buf, n]
    first,            \* <<s>>: s is the sequence of the first terminal render
    cycle,            \* number of the power cycle
    prev,             \* outcomes of the earlier power cycles
    card_boot         \* the record as it was when this power cycle began

vars == <<pc, bpc, sig, i, led, trace, successful_read, card, offset, buffer,
          len, log, chunks, first, cycle, prev, card_boot>>

---------------------------------------------------------------------------
(* Bounds of the model *)

MaxRecLen == 34     \* longest record initially on the card (two read chunks)
MaxCycles == 3      \* power cycles in one behaviour
MaxSigLen == 3      \* longest symbol sequence of the pulse-encoder check
MaxSym == 2         \* largest symbol of the pulse-encoder check
MaxPartial == 2     \* most bytes a failed write leaves on the card

---------------------------------------------------------------------------
(* Constants of the program *)

BLINK_OK_LONG == <<8>>
BLINK_OK_SHORT_LONG == <<1, 0, 6, 0>>
BLINK_OK_SHORT_SHORT_LONG == <<1, 0, 1, 0, 6, 0>>
BLINK_ERR_3_SHORT == <<1, 0, 1, 0, 1, 0>>
BLINK_ERR_4_SHORT == <<1, 0, 1, 0, 1, 0, 1, 0>>
BLINK_ERR_5_SHORT == <<1, 0, 1, 0, 1, 0, 1, 0, 1, 0>>
BLINK_ERR_6_SHORT == <<1, 0, 1, 0, 1, 0, 1, 0, 1, 0, 1, 0>>

QuantumMs == 100    \* delay.delay_ms(100) per unit of a symbol
RestMs == 500       \* delay.delay_ms(500) closing every render
PauseMs == 1000     \* delay.delay_ms(1000) between two renders of a loop
BufLen == 32        \* [0u8; 32]
ByteT == 116        \* b"t"[0]
ByteE == 101        \* b"e"[0]

PayloadUpper == <<84, 101, 115, 116, 32, 108, 111, 103, 32, 100, 97, 116, 97>>

\* b"test log data"
Payload == <<116, 101, 115, 116, 32, 108, 111, 103, 32, 100, 97, 116, 97>>

\* The bytes of the initial records that are not the marker's: 's'
Filler == Payload[3]

---------------------------------------------------------------------------
(* Helpers *)

Min(a, b) == IF a < b THEN a ELSE b

SeqsUpTo(S, n) == UNION {[1..k -> S] : k \in 0..n}

NoFile == [exists |-> FALSE, data |-> <<>>]

File(d) == [exists |-> TRUE, data |-> d]

\* A record of length n holding the marker at byte offset p (none if p < 0).
MkRec(n, p) ==
    [j \in 1..n |-> IF p >= 0 /\ j = p + 1 THEN ByteT
                    ELSE IF p >= 0 /\ j = p + 2 THEN ByteE
                    ELSE Filler]

InitCards ==
    {NoFile} \cup {File(MkRec(n, p)) : n \in 0..MaxRecLen, p \in -1..MaxRecLen - 2}

Entry(op, ok) == [op |-> op, ok |-> ok]

AckEntry == Entry("ack", TRUE)

---------------------------------------------------------------------------
(* blink_signals: one render of sig *)

HoldMsNoMin(bit) == bit * QuantumMs

\* let length = if *bit > 0 { *bit } else { 1 }; length times delay_ms(100)
HoldMs(bit) ==
    LET length == IF bit > 0 THEN bit ELSE 1
    IN  length * QuantumMs

\* if *bit != 0 { set_high } else { set_low }
Level(bit) == IF bit # 0 THEN 1 ELSE 0

FinalLevelKeep(l) == l

\* pin.set_low() after the for loop
FinalLevel(l) == 0

AckLabels == {"ack0", "ack1", "ack2", "ack3", "ack4", "ack5", "ack6"}

LoopLabels == {"err_loop", "terminal"}

PauseLabels == {"err_pause", "term_pause"}

\* Where main() continues when the render called at p returns.
AfterBlink(p) ==
    CASE p = "ack0" -> "stage1"
      [] p = "ack1" -> "stage2"
      [] p = "ack2" -> "stage3"
      [] p = "ack3" -> "stage4"
      [] p = "ack4" -> "open5"
      [] p = "ack5" -> "open6"
      [] p = "ack6" -> "terminal"
      [] p = "err_loop" -> "err_pause"
      [] p = "terminal" -> "term_pause"
      [] p = "call" -> "returned"

TerminalSigSwapped(flag) ==
    IF flag THEN BLINK_OK_SHORT_LONG ELSE BLINK_OK_SHORT_SHORT_LONG

\* if successful_read { ..SHORT_SHORT_LONG } else { ..SHORT_LONG }
TerminalSig(flag) ==
    IF flag THEN BLINK_OK_SHORT_SHORT_LONG ELSE BLINK_OK_SHORT_LONG

\* The sequence the call at p renders.
SigAt(p) ==
    CASE p \in AckLabels -> BLINK_OK_LONG
      [] p = "err_loop" -> sig
      [] p = "terminal" -> TerminalSig(successful_read)

\* blink_signals(&mut led_pin, &mut delay, sig) is entered
BlinkCall ==
    /\ pc \in AckLabels \cup LoopLabels
    /\ bpc = "none"
    /\ bpc' = "for"
    /\ sig' = SigAt(pc)
    /\ i' = 1
    /\ trace' = <<>>
    /\ first' = IF pc \in LoopLabels /\ first = <<>> THEN <<SigAt(pc)>> ELSE first
    /\ UNCHANGED <<pc, led, successful_read, card, offset, buffer, len, log,
                   chunks, cycle, prev, card_boot>>

\* one iteration of `for bit in sig`
BlinkFor ==
    /\ bpc = "for"
    /\ i <= Len(sig)
    /\ led' = Level(sig[i])
    /\ trace' = Append(trace, <<Level(sig[i]), HoldMs(sig[i])>>)
    /\ i' = i + 1
    /\ UNCHANGED <<pc, bpc, sig, successful_read, card, offset, buffer, len,
                   log, chunks, first, cycle, prev, card_boot>>

\* the for loop is over: set_low, delay_ms(500), return
BlinkFinal ==
    /\ bpc = "for"
    /\ i > Len(sig)
    /\ led' = FinalLevel(led)
    /\ trace' = Append(trace, <<FinalLevel(led), RestMs>>)
    /\ bpc' = "none"
    /\ pc' = AfterBlink(pc)
    /\ log' = IF pc \in AckLabels THEN Append(log, AckEntry) ELSE log
    /\ UNCHANGED <<sig, i, successful_read, card, offset, buffer, len, chunks,
                   first, cycle, prev, card_boot>>


AfterPauseOnce(p) ==
    CASE p = "err_pause" -> "err_loop"
      [] p = "term_pause" -> "halted"

\* blink_signals_loop / the loop closing main(): after the pause, again
AfterPause(p) ==
    CASE p = "err_pause" -> "err_loop"
      [] p = "term_pause" -> "terminal"

OkNextNoAck(p) ==
    CASE p = "stage1" -> "stage2"
      [] p = "stage2" -> "ack2"
      [] p = "stage3" -> "ack3"
      [] p = "open6" -> "write6"

\* Where main() continues when the call at p returned Ok.
OkNext(p) ==
    CASE p = "stage1" -> "ack1"
      [] p = "stage2" -> "ack2"
      [] p = "stage3" -> "ack3"
      [] p = "open6" -> "write6"

ErrNextFallThrough(p) ==
    CASE p = "stage1" -> "ack1"
      [] p = "stage2" -> "ack2"
      [] p = "stage3" -> "ack3"
      [] p = "open6" -> "ack6"

\* Where main() continues when the call at p returned Err: the Err arm
\* calls blink_signals_loop, which never returns.
ErrNext(p) == "err_loop"

StageErrCopy2(p) ==
    CASE p = "stage1" -> BLINK_ERR_3_SHORT
      [] p = "stage2" -> BLINK_ERR_3_SHORT
      [] p = "stage3" -> BLINK_ERR_5_SHORT
      [] p = "open6" -> BLINK_ERR_6_SHORT

StageErrCopy6(p) ==
    CASE p = "stage1" -> BLINK_ERR_3_SHORT
      [] p = "stage2" -> BLINK_ERR_4_SHORT
      [] p = "stage3" -> BLINK_ERR_5_SHORT
      [] p = "open6" -> BLINK_ERR_5_SHORT

\* The sequence the Err arm of the call at p hands to blink_signals_loop.
StageErr(p) ==
    CASE p = "stage1" -> BLINK_ERR_3_SHORT
      [] p = "stage2" -> BLINK_ERR_4_SHORT
      [] p = "stage3" -> BLINK_ERR_5_SHORT
      [] p = "open6" -> BLINK_ERR_6_SHORT

Open5NextUnwrap(ok) == IF ok THEN "eof5" ELSE "halted"

\* if let Ok(mut file) = ..open_file_in_dir(.., Mode::ReadOnly) { .. }:
\* an Err skips the block
Open5Next(ok) == IF ok THEN "eof5" ELSE "ack5"

IsEofOneChunk(data, off) == off > 0 \/ off = Len(data)

\* file.is_eof()
IsEof(data, off) == off = Len(data)

\* file.read(&mut buffer): the number of bytes read
ReadCount(data, off) == Min(BufLen, Len(data) - off)

\* let mut buffer = [0u8; 32]; file.read(&mut buffer): the buffer after it
ReadBuffer(data, off) ==
    [j \in 1..BufLen |-> IF j <= ReadCount(data, off) THEN data[off + j] ELSE 0]

PadLenNone(n) == n

\* while len < buffer.len() { len += 1 }
PadLen(n) == IF n < BufLen THEN BufLen ELSE n

MarkerTestFirstByte(buf, l) == l > 2 /\ buf[1] = ByteT

\* len > 2 && buffer[0] == b"t"[0] && buffer[1] == b"e"[0]
MarkerTest(buf, l) == l > 2 /\ buf[1] = ByteT /\ buf[2] = ByteE

FlagAfterAssign(flag, hit) == hit

\* if .. {successful_read = true;}: the flag after the test of one chunk
FlagAfter(flag, hit) == IF hit THEN TRUE ELSE flag

Stage4NextIgnore(ok) == "ack4"

Stage4NextNoAck(ok) == IF ok THEN "open5" ELSE "halted"

\* dir.iterate_dir(..).unwrap(): Ok continues, Err panics
Stage4Next(ok) == IF ok THEN "ack4" ELSE "halted"

OpenKeep(d) == d

\* Mode::ReadWriteCreateOrTruncate: the record's content once it is opened
OpenTruncate(d) == <<>>

\* file.write(bytes) on the record just opened: bytes from offset 0 on
WriteAt(d, bytes) == bytes \o SubSeq(d, Len(bytes) + 1, Len(d))

PauseAtDiffer(p) == IF p = "term_pause" THEN RestMs ELSE PauseMs

\* delay.delay_ms(1000): in blink_signals_loop and in the loop closing main()
PauseAt(p) == PauseMs

\* delay.delay_ms(1000) of a loop, then its next iteration
Pause ==
    /\ pc \in PauseLabels
    /\ trace' = Append(trace, <<led, PauseAt(pc)>>)
    /\ pc' = AfterPause(pc)
    /\ UNCHANGED <<bpc, sig, i, led, successful_read, card, offset, buffer, len,
                   log, chunks, first, cycle, prev, card_boot>>

---------------------------------------------------------------------------
(* main(): the stages *)

\* A stage whose Err arm calls blink_signals_loop with errsig.
Stage(at, op) ==
    /\ pc = at
    /\ \E ok \in BOOLEAN :
         /\ log' = Append(log, Entry(op, ok))
         /\ IF ok
              THEN pc' = OkNext(at) /\ sig' = sig
              ELSE pc' = ErrNext(at) /\ sig' = StageErr(at)
    /\ UNCHANGED <<bpc, i, led, trace, successful_read, card, offset, buffer,
                   len, chunks, first, cycle, prev, card_boot>>

\* volume_mgr.device().num_bytes()
Stage1 == Stage("stage1", "num_bytes")

\* volume_mgr.open_volume(VolumeIdx(0))
Stage2 == Stage("stage2", "open_volume")

\* volume.open_root_dir()
Stage3 == Stage("stage3", "open_root_dir")

\* dir.iterate_dir(..).unwrap(): an Err (or a name that is not UTF-8) panics
Stage4 ==
    /\ pc = "stage4"
    /\ \E ok \in BOOLEAN :
         /\ log' = Append(log, Entry("iterate_dir", ok))
         /\ pc' = Stage4Next(ok)
    /\ UNCHANGED <<bpc, sig, i, led, trace, successful_read, card, offset,
                   buffer, len, chunks, first, cycle, prev, card_boot>>

\* let mut successful_read = false;
\* if let Ok(mut file) = dir.open_file_in_dir("log.txt", Mode::ReadOnly)
Open5 ==
    /\ pc = "open5"
    /\ successful_read' = FALSE
    /\ \E ok \in (IF card.exists THEN BOOLEAN ELSE {FALSE}) :
         /\ log' = Append(log, Entry("open_ro", ok))
         /\ pc' = Open5Next(ok)
    /\ offset' = 0
    /\ UNCHANGED <<bpc, sig, i, led, trace, card, buffer, len, chunks, first,
                   cycle, prev, card_boot>>

\* while !file.is_eof()
Eof5 ==
    /\ pc = "eof5"
    /\ pc' = IF IsEof(card.data, offset) THEN "ack5" ELSE "read5"
    /\ UNCHANGED <<bpc, sig, i, led, trace, successful_read, card, offset,
                   buffer, len, log, chunks, first, cycle, prev, card_boot>>

\* the body of the read loop: read(&mut buffer).unwrap(), the padding of
\* len, the test of the first two bytes
Read5 ==
    /\ pc = "read5"
    /\ \E ok \in BOOLEAN :
         /\ log' = Append(log, Entry("read", ok))
         /\ IF ok
              THEN LET n == ReadCount(card.data, offset)
                       buf == ReadBuffer(card.data, offset)
                   IN  /\ buffer' = buf
                       /\ len' = PadLen(n)
                       /\ offset' = offset + n
                       /\ chunks' = Append(chunks, [buf |-> buf, n |-> n])
                       /\ successful_read' =
                            FlagAfter(successful_read, MarkerTest(buf, PadLen(n)))
                       /\ pc' = "eof5"
              ELSE /\ pc' = "halted"
                   /\ UNCHANGED <<buffer, len, offset, chunks, successful_read>>
    /\ UNCHANGED <<bpc, sig, i, led, trace, card, first, cycle, prev, card_boot>>

\* dir.open_file_in_dir("log.txt", Mode::ReadWriteCreateOrTruncate)
Open6 ==
    /\ pc = "open6"
    /\ \E ok \in BOOLEAN :
         /\ log' = Append(log, Entry("open_rwct", ok))
         /\ IF ok
              THEN /\ pc' = OkNext("open6")
                   /\ sig' = sig
                   /\ card' = File(OpenTruncate(card.data))
              ELSE /\ pc' = ErrNext("open6")
                   /\ sig' = StageErr("open6")
                   /\ card' = card
    /\ UNCHANGED <<bpc, i, led, trace, successful_read, offset, buffer, len,
                   chunks, first, cycle, prev, card_boot>>

\* file.write(b"test log data").unwrap(): an Err panics, with some leading
\* part of the payload on the card
Write6 ==
    /\ pc = "write6"
    /\ \E ok \in BOOLEAN :
         /\ log' = Append(log, Entry("write", ok))
         /\ IF ok
              THEN pc' = "ack6" /\ card' = File(WriteAt(card.data, Payload))
              ELSE /\ pc' = "halted"
                   /\ \E k \in 0..Min(MaxPartial, Len(Payload) - 1) :
                        card' = File(WriteAt(card.data, SubSeq(Payload, 1, k)))
    /\ UNCHANGED <<bpc, sig, i, led, trace, successful_read, offset, buffer,
                   len, chunks, first, cycle, prev, card_boot>>

---------------------------------------------------------------------------
(* The power cycle *)

\* The terminal-OK signal of the power cycle that ends (<<>> if it showed
\* none), and whether the card held the record when it began.
Outcome ==
    [signal |-> IF pc = "term_pause" THEN sig ELSE <<>>,
     had |-> card_boot.exists]

Boot(c) ==
    /\ pc = "ack0"
    /\ bpc = "none"
    /\ sig = <<>>
    /\ i = 1
    /\ led = 0
    /\ trace = <<>>
    /\ successful_read = FALSE
    /\ card = c
    /\ offset = 0
    /\ buffer = [j \in 1..BufLen |-> 0]
    /\ len = 0
    /\ log = <<>>
    /\ chunks = <<>>
    /\ first = <<>>
    /\ card_boot = c

Init ==
    /\ \E c \in InitCards : Boot(c)
    /\ cycle = 1
    /\ prev = <<>>

\* The operator power-cycles the unit once it shows a terminal signal or has
\* halted: the card keeps its content, everything else is rebuilt.
Reset ==
    /\ pc \in PauseLabels \cup {"halted"}
    /\ cycle < MaxCycles
    /\ cycle' = cycle + 1
    /\ prev' = Append(prev, Outcome)
    /\ pc' = "ack0"
    /\ bpc' = "none"
    /\ sig' = <<>>
    /\ i' = 1
    /\ led' = 0
    /\ trace' = <<>>
    /\ successful_read' = FALSE
    /\ card' = card
    /\ offset' = 0
    /\ buffer' = [j \in 1..BufLen |-> 0]
    /\ len' = 0
    /\ log' = <<>>
    /\ chunks' = <<>>
    /\ first' = <<>>
    /\ card_boot' = card

Step ==
    \/ BlinkCall
    \/ BlinkFor
    \/ BlinkFinal
    \/ Pause
    \/ Stage1
    \/ Stage2
    \/ Stage3
    \/ Stage4
    \/ Open5
    \/ Eof5
    \/ Read5
    \/ Open6
    \/ Write6

Next == Step \/ Reset

Spec == Init /\ [][Next]_vars

\* The thread of main() always takes its next step; nothing obliges the
\* operator to reset.
FairSpec == Init /\ [][Next]_vars /\ WF_vars(Step)

---------------------------------------------------------------------------
(* The pulse encoder alone: one call of blink_signals on any sequence *)

TestSigs == SeqsUpTo(0..MaxSym, MaxSigLen)

InitBlink ==
    /\ pc = "call"
    /\ bpc = "for"
    /\ sig \in TestSigs
    /\ i = 1
    /\ led \in {0, 1}
    /\ trace = <<>>
    /\ successful_read = FALSE
    /\ card = NoFile
    /\ offset = 0
    /\ buffer = [j \in 1..BufLen |-> 0]
    /\ len = 0
    /\ log = <<>>
    /\ chunks = <<>>
    /\ first = <<>>
    /\ cycle = 1
    /\ prev = <<>>
    /\ card_boot = NoFile

NextBlink == BlinkFor \/ BlinkFinal

SpecBlink == InitBlink /\ [][NextBlink]_vars

---------------------------------------------------------------------------
(* Vocabulary of the properties *)

\* The stage an external call belongs to (an acknowledgment to none).
StageOf(op) ==
    CASE op = "num_bytes" -> 1
      [] op = "open_volume" -> 2
      [] op = "open_root_dir" -> 3
      [] op = "iterate_dir" -> 4
      [] op \in {"open_ro", "read"} -> 5
      [] op \in {"open_rwct", "write"} -> 6
      [] op = "ack" -> 0

StageOp(k) ==
    CASE k = 1 -> "num_bytes"
      [] k = 2 -> "open_volume"
      [] k = 3 -> "open_root_dir"

ErrSig(k) ==
    CASE k = 1 -> BLINK_ERR_3_SHORT
      [] k = 2 -> BLINK_ERR_4_SHORT
      [] k = 3 -> BLINK_ERR_5_SHORT
      [] k = 6 -> BLINK_ERR_6_SHORT

\* The call op was made in this power cycle and returned Err / Ok.
Failed(op) == \E j \in 1..Len(log) : log[j] = Entry(op, FALSE)

Succeeded(op) == \E j \in 1..Len(log) : log[j] = Entry(op, TRUE)

Rendering == bpc = "for"

InErrLoop == pc \in {"err_loop", "err_pause"}

InTerminalOk == pc \in {"terminal", "term_pause"}

RecordOps == {"open_ro", "read", "open_rwct", "write"}

---------------------------------------------------------------------------
(* C1 *)

C1_OnlyErrSig(k) ==
    Failed(StageOp(k)) =>
        /\ InErrLoop
        /\ sig = ErrSig(k)
        /\ first \in {<<>>, <<ErrSig(k)>>}
        /\ Rendering => sig = ErrSig(k)

\* C1: for k = 1, 2, 3, once stage k has failed the program is in its error
\* loop, every render in progress and every render completed is of the stage's
\* error sequence (3, 4, 5 short pulses), never of the acknowledgment, another
\* error sequence or a terminal-OK sequence, and a render of that sequence
\* completes again and again.
C1_StageErrorSignal ==
    /\ [](\A k \in 1..3 : C1_OnlyErrSig(k))
    /\ \A k \in 1..3 :
         Failed(StageOp(k)) ~> (pc = "err_pause" /\ sig = ErrSig(k))

C1_Witness ==
    /\ Failed("open_root_dir")
    /\ pc = "err_loop"
    /\ Rendering
    /\ i = Len(BLINK_ERR_5_SHORT)
    /\ Len(trace) = i - 1
    /\ first = <<BLINK_ERR_5_SHORT>>

---------------------------------------------------------------------------
(* C2 *)

\* C2: once a call of stage k in {1, 2, 3, 6} has failed, no call of a later
\* stage is made in that power cycle; after a failure of stage 1, 2 or 3 no
\* call on the record 'log.txt' is made and the card holds what it held when
\* the power cycle began.
C2_HaltsAtFirstFailure ==
    \A j \in 1..Len(log) :
        (~log[j].ok /\ StageOf(log[j].op) \in {1, 2, 3, 6}) =>
            /\ \A m \in (j + 1)..Len(log) :
                   StageOf(log[m].op) <= StageOf(log[j].op)
            /\ StageOf(log[j].op) \in {1, 2, 3} =>
                   /\ \A m \in 1..Len(log) : log[m].op \notin RecordOps
                   /\ card = card_boot

C2_Witness ==
    /\ Failed("open_volume")
    /\ pc = "err_pause"
    /\ card.exists
    /\ Len(card.data) > BufLen

---------------------------------------------------------------------------
(* C3 *)

\* C3 as claimed: whichever step of stage 6 fails, the open or the write, the
\* program is in the error loop of the 6-short-pulse sequence.
C3_AsClaimed ==
    (Failed("open_rwct") \/ Failed("write")) =>
        (InErrLoop /\ sig = BLINK_ERR_6_SHORT)

C3_OpenFailure ==
    Failed("open_rwct") =>
        /\ InErrLoop
        /\ sig = BLINK_ERR_6_SHORT
        /\ first \in {<<>>, <<BLINK_ERR_6_SHORT>>}

C3_WriteFailure ==
    Failed("write") =>
        /\ pc = "halted"
        /\ ~Rendering
        /\ first = <<>>
        /\ led = 0

\* C3, amended: if the open of the record in open-or-create/truncate mode
\* fails, the 6-short-pulse sequence is rendered again and again and no other
\* sequence is; if the write to the opened record fails, the program halts
\* with the output low: it renders no error and no terminal-OK sequence.
C3_RecordWriteFailure ==
    /\ [](C3_OpenFailure /\ C3_WriteFailure)
    /\ Failed("open_rwct") ~> (pc = "err_pause" /\ sig = BLINK_ERR_6_SHORT)

C3_Witness ==
    /\ Failed("open_rwct")
    /\ Succeeded("read")
    /\ pc = "err_pause"
    /\ first = <<BLINK_ERR_6_SHORT>>

---------------------------------------------------------------------------
(* C4 *)

C4_FirstRun ==
    Failed("open_ro") =>
        /\ ~successful_read
        /\ ~Failed("read") /\ ~Succeeded("read")
        /\ InErrLoop => Failed("open_rwct")
        /\ pc = "halted" => Failed("write")
        /\ InTerminalOk =>
             /\ Succeeded("write")
             /\ first \in {<<>>, <<BLINK_OK_SHORT_LONG>>}
             /\ Rendering => sig = BLINK_OK_SHORT_LONG

\* C4: if the read-only open of the record fails (the record is absent or
\* cannot be opened), the flag stays false, nothing is read, no error
\* sequence is rendered and the program does not halt on that account, the
\* open of stage 6 is attempted, and a terminal-OK loop that follows renders
\* short-long only.
C4_OpenFailureIsFirstRun ==
    /\ []C4_FirstRun
    /\ Failed("open_ro") ~> (Failed("open_rwct") \/ Succeeded("open_rwct"))

C4_Witness ==
    /\ Failed("open_ro")
    /\ card_boot.exists
    /\ Len(card_boot.data) >= 2
    /\ card_boot.data[1] = ByteT
    /\ card_boot.data[2] = ByteE
    /\ pc = "term_pause"
    /\ sig = BLINK_OK_SHORT_LONG

---------------------------------------------------------------------------
(* C5 *)

\* C5 as claimed: a read call on the opened record that fails does not stop
\* the run: the program is not halted after it.
C5_ReadFailureTolerated == Failed("read") => pc # "halted"

---------------------------------------------------------------------------
(* C6 *)

\* The marker lies at byte offset p of d.
HasMarkerAt(d, p) == p + 2 <= Len(d) /\ d[p + 1] = ByteT /\ d[p + 2] = ByteE

MarkerAnywhere(d) == \E p \in 0..Len(d) : HasMarkerAt(d, p)

MarkerAtChunkStart(d) == \E c \in 0..Len(d) : HasMarkerAt(d, c * 32)

\* The record was opened and read in stage 5 and stage 6 succeeded.
ReadThenWritten == Succeeded("open_ro") /\ Succeeded("write")

\* C6 as claimed: a marker anywhere in the record read at stage 5 sets the
\* flag, and the terminal signal after a successful stage 6 is
\* short-short-long.
C6_AsClaimed ==
    (ReadThenWritten /\ MarkerAnywhere(card_boot.data)) =>
        /\ successful_read
        /\ first \in {<<>>, <<BLINK_OK_SHORT_SHORT_LONG>>}
        /\ (InTerminalOk /\ Rendering) => sig = BLINK_OK_SHORT_SHORT_LONG

\* C6, amended: a marker that lies at the start of a 32-byte read chunk of the
\* record read at stage 5 (byte offsets 32c and 32c+1), the final chunk
\* included, sets the flag, and the terminal signal after a successful stage 6
\* is short-short-long, never short-long.
C6_MarkerAtChunkStart ==
    (ReadThenWritten /\ MarkerAtChunkStart(card_boot.data)) =>
        /\ successful_read
        /\ first \in {<<>>, <<BLINK_OK_SHORT_SHORT_LONG>>}
        /\ (InTerminalOk /\ Rendering) => sig = BLINK_OK_SHORT_SHORT_LONG

C6_Witness ==
    /\ ReadThenWritten
    /\ Len(card_boot.data) = 34
    /\ HasMarkerAt(card_boot.data, 32)
    /\ pc = "term_pause"
    /\ sig = BLINK_OK_SHORT_SHORT_LONG

---------------------------------------------------------------------------
(* C7 *)

AllOk == \A j \in 1..Len(log) : log[j].ok

FirstRunShown == [signal |-> BLINK_OK_SHORT_LONG, had |-> FALSE]

\* C7: on a card without the record, a first power cycle that reaches its
\* terminal-OK loop renders short-long; the power cycle after it, when all its
\* calls succeed, has the flag true and renders short-short-long.
C7_TwoPowerCycles ==
    /\ (cycle = 1 /\ ~card_boot.exists /\ InTerminalOk) =>
           /\ ~successful_read
           /\ first \in {<<>>, <<BLINK_OK_SHORT_LONG>>}
           /\ Rendering => sig = BLINK_OK_SHORT_LONG
    /\ (cycle = 2 /\ prev[1] = FirstRunShown /\ AllOk /\ InTerminalOk) =>
           /\ successful_read
           /\ first \in {<<>>, <<BLINK_OK_SHORT_SHORT_LONG>>}
           /\ Rendering => sig = BLINK_OK_SHORT_SHORT_LONG

C7_Witness ==
    /\ cycle = 2
    /\ prev[1] = FirstRunShown
    /\ AllOk
    /\ pc = "term_pause"
    /\ sig = BLINK_OK_SHORT_SHORT_LONG
    /\ first = <<BLINK_OK_SHORT_SHORT_LONG>>

---------------------------------------------------------------------------
(* C8 *)

\* The intervals the symbols of S stand for: high for a nonzero symbol, low
\* for zero, max(s, 1) quanta of 100 ms each.
SymbolIntervals(S) ==
    [j \in 1..Len(S) |->
        <<IF S[j] # 0 THEN 1 ELSE 0, (IF S[j] > 1 THEN S[j] ELSE 1) * 100>>]

\* C8: a render of S emits the intervals of its symbols in order, then one
\* low interval of 500 ms, and the output is low when it returns.
C8_RenderIntervals ==
    /\ Rendering => trace = SubSeq(SymbolIntervals(sig), 1, i - 1)
    /\ pc = "returned" =>
           /\ trace = SymbolIntervals(sig) \o << <<0, 500>> >>
           /\ led = 0

C8_Witness ==
    /\ pc = "returned"
    /\ sig = <<2, 0, 1>>
    /\ Len(trace) = 4

---------------------------------------------------------------------------
(* C9 *)

TerminalState == InErrLoop \/ InTerminalOk

C9_Absorbing ==
    (TerminalState /\ cycle' = cycle) =>
        /\ InErrLoop => InErrLoop'
        /\ InTerminalOk => InTerminalOk'
        /\ log' = log
        /\ card' = card
        /\ first # <<>> => first' = first

C9_SameSequence == (TerminalState /\ Rendering) => first = <<sig>>

C9_Separation ==
    (TerminalState /\ ~Rendering /\ pc \in LoopLabels /\ first # <<>>) =>
        /\ led = 0
        /\ Len(trace) >= 2
        /\ trace[Len(trace) - 1] = <<0, 500>>
        /\ trace[Len(trace)] = <<0, 1000>>

\* C9: within a power cycle a terminal state (the error loop, the terminal-OK
\* loop) is never left and no call on the storage is made in it; every render
\* of the loop is of the sequence of its first render; a render completes
\* again and again; between two renders the output is low for 500 ms and then
\* 1000 ms.
C9_TerminalAbsorbing ==
    /\ [][C9_Absorbing]_vars
    /\ [](C9_SameSequence /\ C9_Separation)
    /\ TerminalState ~> (pc \in PauseLabels)

C9_Witness ==
    /\ pc = "terminal"
    /\ ~Rendering
    /\ first = <<BLINK_OK_SHORT_SHORT_LONG>>
    /\ Len(trace) = Len(BLINK_OK_SHORT_SHORT_LONG) + 2

---------------------------------------------------------------------------
(* C10 *)

IsCall(e) == e.op # "ack"

\* The calls whose success completes stage 1, 2, 3 or 6.
AckedCalls == {"num_bytes", "open_volume", "open_root_dir", "write"}

\* C10: the calls are made in the order of their stages, none of a stage
\* before one of the stage before it, the calls of stages 1 to 4 once; a
\* successful stage 1, 2, 3 or 6 is followed, before any other call and
\* before the terminal loop, by a complete acknowledgment render.
C10_StageOrder ==
    /\ \A j, m \in 1..Len(log) :
         (j < m /\ IsCall(log[j]) /\ IsCall(log[m])) =>
             /\ StageOf(log[j].op) <= StageOf(log[m].op)
             /\ StageOf(log[m].op) <= 4 => log[j].op # log[m].op
    /\ \A m \in 1..Len(log) :
         StageOf(log[m].op) > 1 =>
             \E j \in 1..(m - 1) : StageOf(log[j].op) = StageOf(log[m].op) - 1
    /\ \A j \in 1..Len(log) :
         (log[j].ok /\ log[j].op \in AckedCalls) =>
             IF j < Len(log) THEN log[j + 1] = AckEntry
             ELSE pc \in AckLabels

C10_Witness ==
    /\ AllOk
    /\ Succeeded("read")
    /\ Succeeded("write")
    /\ Len(chunks) = 2
    /\ pc = "term_pause"

---------------------------------------------------------------------------
(* C11 *)

\* The acknowledgment renders completed so far in this power cycle.
AckCount == Cardinality({j \in 1..Len(log) : log[j] = AckEntry})

\* Every call succeeded but the read-only open of the record, which the card
\* does not hold.
FirstRunAllOk ==
    /\ ~card_boot.exists
    /\ \A j \in 1..Len(log) : log[j].ok \/ log[j].op = "open_ro"

\* The calls and acknowledgments of a whole first run, in order.
FirstRunLog ==
    <<AckEntry,
      Entry("num_bytes", TRUE), AckEntry,
      Entry("open_volume", TRUE), AckEntry,
      Entry("open_root_dir", TRUE), AckEntry,
      Entry("iterate_dir", TRUE), AckEntry,
      Entry("open_ro", FALSE), AckEntry,
      Entry("open_rwct", TRUE), Entry("write", TRUE), AckEntry>>

---------------------------------------------------------------------------
(* C12 *)

\* C12 as claimed: a run in which everything is successful has rendered nine
\* long blink signals when it enters the terminal loop.
C12_NineLongBlinks == (AllOk /\ InTerminalOk) => AckCount = 9

---------------------------------------------------------------------------
(* C13 *)

\* The short pulses (symbols equal to 1) of S.
Shorts(S) == Cardinality({j \in 1..Len(S) : S[j] = 1})

\* C13: the error sequences of the stages 1, 2, 3 and 6 are pairwise distinct
\* and have 3, 4, 5 and 6 short pulses; the error loop entered on the failure
\* of a stage renders the sequence with that stage's number of short pulses.
C13_ErrorSequencesDistinct ==
    /\ \A a, b \in {"stage1", "stage2", "stage3", "open6"} :
         a # b => StageErr(a) # StageErr(b)
    /\ Shorts(StageErr("stage1")) = 3
    /\ Shorts(StageErr("stage2")) = 4
    /\ Shorts(StageErr("stage3")) = 5
    /\ Shorts(StageErr("open6")) = 6
    /\ InErrLoop =>
         Shorts(sig) = (CASE Failed("num_bytes") -> 3
                          [] Failed("open_volume") -> 4
                          [] Failed("open_root_dir") -> 5
                          [] Failed("open_rwct") -> 6)

C13_Witness ==
    /\ pc = "err_pause"
    /\ Failed("open_volume")
    /\ Shorts(sig) = 4
    /\ Len(trace) = 9

---------------------------------------------------------------------------
(* C14 *)

\* C14: once the directory listing has failed the program is halted: the
\* failed call is the last entry of the log (no acknowledgment follows it),
\* no render is in progress, no terminal loop was entered, no call on the
\* record was made and the card is as it was.
C14_ListFailureAborts ==
    Failed("iterate_dir") =>
        /\ pc = "halted"
        /\ ~Rendering
        /\ first = <<>>
        /\ log[Len(log)] = Entry("iterate_dir", FALSE)
        /\ \A m \in 1..Len(log) : log[m].op \notin RecordOps
        /\ card = card_boot

C14_Witness ==
    /\ Failed("iterate_dir")
    /\ pc = "halted"
    /\ AckCount = 4
    /\ card.exists
    /\ MarkerAnywhere(card.data)

---------------------------------------------------------------------------
(* C15 *)

InReadLoop == pc \in {"eof5", "read5"}

\* The bytes read so far in this power cycle.
RECURSIVE BytesRead(_)
BytesRead(cs) == IF cs = <<>> THEN 0 ELSE cs[1].n + BytesRead(Tail(cs))

C15_Monotone == (InReadLoop /\ successful_read) => successful_read'

C15_NoEarlyExit ==
    (InReadLoop /\ pc' = "ack5") => BytesRead(chunks) = Len(card_boot.data)

C15_StartsFalse == (pc = "eof5" /\ chunks = <<>>) => ~successful_read

\* C15: in the read loop the flag starts false and, once true, stays true;
\* the loop is left for the acknowledgment only when every byte of the record
\* has been read, whether or not the marker was matched.
C15_FlagMonotoneReadToEnd ==
    /\ []C15_StartsFalse
    /\ [][C15_Monotone /\ C15_NoEarlyExit]_vars

C15_Witness ==
    /\ pc = "ack5"
    /\ Len(chunks) = 2
    /\ HasMarkerAt(card_boot.data, 0)
    /\ ~HasMarkerAt(card_boot.data, 32)
    /\ successful_read
    /\ BytesRead(chunks) = Len(card_boot.data)

---------------------------------------------------------------------------
(* C16 *)

\* Chunk c has 't' as its first byte and 'e' as its second.
ChunkStartsWithMarker(c) == c.buf[1] = 116 /\ c.buf[2] = 101

\* C16: the flag is true exactly when some chunk read so far has 't','e' as
\* its first two bytes, however many bytes the read returned; at the end of
\* stage 5 this is exactly when the record has the marker at the start of a
\* 32-byte chunk, so not for a marker only inside a chunk or across two.
C16_FlagIffChunkPrefix ==
    /\ pc \in {"eof5", "read5", "ack5"} =>
         (successful_read <=>
            \E j \in 1..Len(chunks) : ChunkStartsWithMarker(chunks[j]))
    /\ (pc = "ack5" /\ Succeeded("open_ro")) =>
         (successful_read <=> MarkerAtChunkStart(card_boot.data))

C16_Witness ==
    /\ pc = "ack5"
    /\ card_boot.data = <<116, 101>>
    /\ Len(chunks) = 1
    /\ chunks[1].n = 2
    /\ successful_read

---------------------------------------------------------------------------
(* C17 *)

SomeEarlierCycleOk == \E j \in 1..Len(prev) : prev[j].signal # <<>>

LastCycleOk == cycle >= 2 /\ prev[cycle - 1].signal # <<>>

C17_PayloadWritten == Succeeded("write") => card = File(Payload)

\* C17 as claimed: after a power cycle whose stage 6 succeeded, every later
\* power cycle whose calls all succeed ends in short-short-long.
C17_AsClaimed ==
    /\ C17_PayloadWritten
    /\ (SomeEarlierCycleOk /\ AllOk /\ InTerminalOk) =>
           /\ successful_read
           /\ Rendering => sig = BLINK_OK_SHORT_SHORT_LONG

\* C17, amended: after a successful stage 6 the record holds exactly the
\* payload, whatever it held before; the power cycle that directly follows a
\* power cycle that reached its terminal-OK loop starts with that record and,
\* when all its calls succeed, ends in short-short-long.
C17_NextCycleConfirms ==
    /\ C17_PayloadWritten
    /\ LastCycleOk => card_boot = File(Payload)
    /\ (LastCycleOk /\ AllOk /\ InTerminalOk) =>
           /\ successful_read
           /\ first \in {<<>>, <<BLINK_OK_SHORT_SHORT_LONG>>}
           /\ Rendering => sig = BLINK_OK_SHORT_SHORT_LONG

C17_Witness ==
    /\ cycle = 2
    /\ prev[1] = [signal |-> BLINK_OK_SHORT_LONG, had |-> TRUE]
    /\ AllOk
    /\ card = File(Payload)
    /\ pc = "term_pause"
    /\ sig = BLINK_OK_SHORT_SHORT_LONG

---------------------------------------------------------------------------
(* C18 *)

\* One iteration of a repeating render of S: the one-shot render, then the
\* pause of 1000 ms with the output low.
LoopIteration(S) == SymbolIntervals(S) \o << <<0, 500>>, <<0, 1000>> >>

\* The sequence a loop is to repeat: the argument of blink_signals_loop, the
\* sequence the flag selects in the loop closing main().
LoopSequence ==
    IF InTerminalOk
      THEN IF successful_read THEN BLINK_OK_SHORT_SHORT_LONG
           ELSE BLINK_OK_SHORT_LONG
      ELSE sig

\* C18: each completed iteration of the loop closing main() and of
\* blink_signals_loop has emitted the same intervals: the one-shot render of
\* the loop's sequence, then low for 1000 ms.
C18_LoopsEquivalent ==
    /\ pc \in PauseLabels =>
         trace = SymbolIntervals(LoopSequence) \o << <<0, 500>> >>
    /\ (pc \in LoopLabels /\ ~Rendering /\ first # <<>>) =>
         trace = LoopIteration(LoopSequence)

C18_Witness ==
    /\ pc = "terminal"
    /\ ~Rendering
    /\ first = <<BLINK_OK_SHORT_LONG>>
    /\ trace = LoopIteration(BLINK_OK_SHORT_LONG)

---------------------------------------------------------------------------
(* C19 *)

ReadCalls == Cardinality({j \in 1..Len(log) : log[j].op = "read"})

\* No call failed but, on a card without the record, its read-only open.
RunOk ==
    \A j \in 1..Len(log) :
        log[j].ok \/ (log[j].op = "open_ro" /\ ~card_boot.exists)

C19_ReadCount ==
    (pc = "ack5" /\ Succeeded("open_ro")) =>
        /\ ReadCalls = (Len(card_boot.data) + 31) \div 32
        /\ Len(chunks) = ReadCalls
        /\ Len(card_boot.data) = 0 => ~successful_read

\* C19: the read loop ends: on a record of L bytes it has made ceil(L/32)
\* reads when it is left for the acknowledgment (none, with the flag false,
\* for L = 0), the open of stage 6 follows, and a run in which no call fails
\* reaches the terminal-OK loop.
C19_ReadLoopTerminates ==
    /\ []C19_ReadCount
    /\ InReadLoop ~> (pc = "ack5" \/ Failed("read"))
    /\ (pc = "ack5") ~> (Succeeded("open_rwct") \/ Failed("open_rwct"))
    /\ (pc = "ack0") ~> (~RunOk \/ InTerminalOk)

C19_Witness ==
    /\ pc = "ack5"
    /\ Len(card_boot.data) = 33
    /\ ReadCalls = 2
    /\ chunks[2].n = 1

---------------------------------------------------------------------------
(* C20 *)

\* The positions of main() at which a call into the card or filesystem is
\* made.
IoLabels ==
    {"stage1", "stage2", "stage3", "stage4", "open5", "eof5", "read5",
     "open6", "write6"}

C20_LowAtIo == pc \in IoLabels \cup {"halted"} => (led = 0 /\ ~Rendering)

C20_StaysLow == (pc = "halted" /\ cycle' = cycle) => (pc' = "halted" /\ led' = 0)

\* C20: at every call into the card or filesystem the output is low and no
\* render is in progress; a program that has aborted has the output low and
\* keeps it low.
C20_NoRenderDuringIo ==
    /\ []C20_LowAtIo
    /\ [][C20_StaysLow]_vars

C20_Witness ==
    /\ pc = "read5"
    /\ led = 0
    /\ Len(chunks) = 1
    /\ trace = SymbolIntervals(<<8>>) \o << <<0, 500>> >>

=============================================================================
